---- MODULE Spec2Model ----
(***************************************************************************)
(* Discussion Den: identity resolution, authorship, the vote ledger, the   *)
(* save ledger and the comment tree, as implemented by the Flask routes    *)
(* in routes/utils.py, routes/api.py, routes/post.py, routes/auth.py,      *)
(* routes/persona.py and the tables of models.py.                          *)
(*                                                                         *)
(* Tables are collections of rows (records); a NULL column is None.  The   *)
(* ledgers (votes, saved_posts), whose surrogate key no route reads, are    *)
(* bags of rows without the key, so that duplicate rows stay visible.  The *)
(* Flask                                                                   *)
(* session of a browser is a record of the two keys the routes read.       *)
(* Strings that the routes trim are sequences of characters.               *)
(***************************************************************************)
EXTENDS Integers, Sequences, FiniteSets, Bags, TLC

\* NULL column / Python None / missing session key.
None == 0

\* Bounds of the model.
MaxPersonas == 2
MaxPosts == 1
MaxComments == 2
MaxRows == 1
MaxThread == 3
MaxThreadPosts == 2
MaxReplyDepth == 1

\* Registered accounts (users.id) and browser sessions.
Users == {1, 2}
Sessions == {1, 2}
\* The serial specifications drive one browser; accounts alternate in it.
Browser == {1}
\* communities.id of the community created by `flask init-db`.
Communities == {1}

PersonaIds == 1..MaxPersonas
PostIds == 1..MaxPosts
CommentIds == 1..MaxComments
\* Post ids a request can name: those of PostIds and one no post ever has.
ReqPostIds == 1..(MaxPosts + 1)

\* Request inputs.
Bodies == {<<>>, <<" ">>, <<"x">>, <<"y", " ">>}
Titles == {<<>>, <<"t", "t", "t">>}
MinTitleLen == 3
VoteData == [kind : {"int"}, n : -2..2] \cup {[kind |-> "str", n |-> 0], [kind |-> "missing", n |-> 0]}
SaveData == {"missing", "true", "false"}
ParentData == [kind : {"int"}, n : 0..(MaxComments + 1)] \cup {[kind |-> "str", n |-> 0]}

VARIABLES
    session,        \* session[s]: [user_id, active_persona_id] of browser s
    personas,       \* personas table: sequence indexed by personas.id
    posts,          \* posts table
    nextPostId,     \* posts.id sequence
    comments,       \* comments table
    nextCommentId,  \* comments.id sequence
    votes,          \* votes table
    saved,          \* saved_posts table
    resp,           \* the response of the last request handled
    reqs,           \* requests in flight (concurrent specifications)
    communities,    \* communities table: the names, one copy per row
    users,          \* users table: the usernames, indexed by users.id
    registration,   \* registration[s]: the registration_* keys of the session of browser s
    now,            \* datetime.utcnow().timestamp(), in seconds
    redirect_guard  \* whether the login view carries the _redirect_guard attribute

\* The state outside the discussion tables and the resolver's session keys.
site == <<communities, users, registration, now, redirect_guard>>
vars == <<session, personas, posts, nextPostId, comments, nextCommentId, votes, saved, resp, reqs, site>>
db == <<personas, posts, nextPostId, comments, nextCommentId, votes, saved>>

Resp(status, body) == [status |-> status, body |-> body]

\* A browser without a vote request in flight.
IdleReq ==
    [pc |-> "idle", post_id |-> None, value |-> 0,
     ident |-> [active_persona |-> None, user_id |-> None],
     old_value |-> 0, locked |-> FALSE, upvotes |-> 0, downvotes |-> 0,
     save_value |-> FALSE, existing |-> FALSE, name |-> <<>>,
     resp |-> Resp(0, <<>>)]

\* A session without a registration under way: the keys registration_otp,
\* registration_data and registration_otp_time are absent.
NoRegistration == [otp |-> None, data |-> <<>>, time |-> None]

\* The site after init-db: the community 'campus', the accounts of Users, no
\* registration under way, and the login view without its guard attribute.
InitSite ==
    /\ communities = SetToBag({"campus"})
    /\ users = <<"u1", "u2">>
    /\ registration = [s \in Sessions |-> NoRegistration]
    /\ now = 0
    /\ redirect_guard = FALSE

Max(a, b) == IF a >= b THEN a ELSE b

----------------------------------------------------------------------------
(* String trimming: str.strip() *)

RECURSIVE lstrip(_)
lstrip(str) == IF str # <<>> /\ Head(str) = " " THEN lstrip(Tail(str)) ELSE str

RECURSIVE rstrip(_)
rstrip(str) ==
    IF str # <<>> /\ str[Len(str)] = " " THEN rstrip(SubSeq(str, 1, Len(str) - 1)) ELSE str

strip(str) == rstrip(lstrip(str))

\* Bags of rows: delete every copy of the rows in S; insert one row; count
\* the copies of the rows in S.
BagDelete(b, S) == [r \in (DOMAIN b) \ S |-> b[r]]
BagInsert(b, row) == b (+) SetToBag({row})
BagCount(b, S) == BagCardinality([r \in S \cap DOMAIN b |-> b[r]])

----------------------------------------------------------------------------
(* Identity resolution: routes/utils.py *)

\* Mutation: the stored persona id is trusted without the ownership test.
get_active_persona_Trusting(sess) ==
    LET persona_id == sess.active_persona_id IN
    IF persona_id = None THEN None
    ELSE IF persona_id \notin DOMAIN personas THEN None ELSE persona_id

get_active_persona(sess) ==
    LET persona_id == sess.active_persona_id IN
    IF persona_id = None THEN None
    ELSE IF persona_id \notin DOMAIN personas \/ personas[persona_id].user_id # sess.user_id
         THEN None
         ELSE persona_id

\* The session after get_active_persona: an invalid selection is cleared.
session_after_identity(sess) ==
    IF sess.active_persona_id # None /\ get_active_persona(sess) = None
    THEN [sess EXCEPT !.active_persona_id = None]
    ELSE sess

get_identity(sess) ==
    [active_persona |-> get_active_persona(sess), user_id |-> sess.user_id]

is_persona(ident) == ident.active_persona # None
persona_id_of(ident) == ident.active_persona

\* @login_required: an anonymous request is redirected to the login view.
Anonymous(s) == session[s].user_id = None
Unauthorized == resp' = Resp(401, <<>>) /\ UNCHANGED <<session, db, reqs, site>>
Reject(status) == resp' = Resp(status, <<>>) /\ UNCHANGED <<session, db, reqs, site>>
\* A request refused by an ownership test, after get_identity() ran.
Forbidden(s, message) ==
    /\ resp' = Resp(403, [error |-> message])
    /\ session' = [session EXCEPT ![s] = session_after_identity(session[s])]
    /\ UNCHANGED <<db, reqs, site>>
\* A request refused after get_identity() ran: only the session may have changed.
RejectResolved(s, status) ==
    /\ resp' = Resp(status, <<>>)
    /\ session' = [session EXCEPT ![s] = session_after_identity(session[s])]
    /\ UNCHANGED <<db, reqs, site>>

----------------------------------------------------------------------------
(* Row lookups and constructors *)

PostRow(post_id) == CHOOSE p \in posts : p.id = post_id
PostExists(post_id) == \E p \in posts : p.id = post_id
CommentRow(comment_id) == CHOOSE c \in comments : c.id = comment_id
CommentExists(comment_id) == \E c \in comments : c.id = comment_id

\* Mutation: the lookup by post alone, whoever voted.
VotesBy_AnyVoter(rows, post_id, ident) == {v \in DOMAIN rows : v.post_id = post_id}

\* Vote.query.filter_by(post_id=.., voted_by_persona_id | voted_by_user_id=..)
VotesBy(rows, post_id, ident) ==
    {v \in DOMAIN rows : /\ v.post_id = post_id
                  /\ IF is_persona(ident)
                     THEN v.voted_by_persona_id = persona_id_of(ident)
                     ELSE v.voted_by_user_id = ident.user_id}

SavesBy(rows, post_id, ident) ==
    {sp \in DOMAIN rows : /\ sp.post_id = post_id
                   /\ IF is_persona(ident)
                      THEN sp.saved_by_persona_id = persona_id_of(ident)
                      ELSE sp.saved_by_user_id = ident.user_id}

NewVote(post_id, ident, value) ==
    [post_id |-> post_id,
     voted_by_persona_id |-> IF is_persona(ident) THEN persona_id_of(ident) ELSE None,
     voted_by_user_id |-> IF ~is_persona(ident) THEN ident.user_id ELSE None,
     value |-> value]

NewSavedPost(post_id, ident) ==
    [post_id |-> post_id,
     saved_by_persona_id |-> IF is_persona(ident) THEN persona_id_of(ident) ELSE None,
     saved_by_user_id |-> IF ~is_persona(ident) THEN ident.user_id ELSE None]

\* Mutation: the account is recorded as author whatever the acting identity.
NewComment_Both(id, post_id, body, parent_comment_id, ident) ==
    [id |-> id, post_id |-> post_id, body |-> body,
     parent_comment_id |-> parent_comment_id,
     author_user_id |-> ident.user_id,
     author_persona_id |-> IF is_persona(ident) THEN persona_id_of(ident) ELSE None]

\* Mutation: a reply is stored as a reply to itself.
NewComment_SelfParent(id, post_id, body, parent_comment_id, ident) ==
    [id |-> id, post_id |-> post_id, body |-> body,
     parent_comment_id |-> IF parent_comment_id # None THEN id ELSE None,
     author_user_id |-> IF ~is_persona(ident) THEN ident.user_id ELSE None,
     author_persona_id |-> IF is_persona(ident) THEN persona_id_of(ident) ELSE None]

NewComment(id, post_id, body, parent_comment_id, ident) ==
    [id |-> id, post_id |-> post_id, body |-> body,
     parent_comment_id |-> parent_comment_id,
     author_user_id |-> IF ~is_persona(ident) THEN ident.user_id ELSE None,
     author_persona_id |-> IF is_persona(ident) THEN persona_id_of(ident) ELSE None]

NewPost(id, community_id, title, body, ident) ==
    [id |-> id, community_id |-> community_id, title |-> title, body |-> body,
     upvotes |-> 0, downvotes |-> 0,
     author_user_id |-> IF ~is_persona(ident) THEN ident.user_id ELSE None,
     author_persona_id |-> IF is_persona(ident) THEN persona_id_of(ident) ELSE None]

\* Mutation: a persona-authored record is owned by the persona's account.
owns_ByAccount(rec, ident) ==
    \/ (rec.author_user_id # None /\ rec.author_user_id = ident.user_id)
    \/ (rec.author_persona_id # None /\ personas[rec.author_persona_id].user_id = ident.user_id)

\* The ownership test of edit_post, edit_post_post, delete_post, edit_comment
\* and delete_comment.
owns(rec, ident) ==
    \/ (rec.author_user_id # None /\ rec.author_user_id = ident.user_id)
    \/ (rec.author_persona_id # None /\ rec.author_persona_id = persona_id_of(ident))

----------------------------------------------------------------------------
(* Authentication and persona selection: routes/auth.py, routes/api.py,     *)
(* routes/persona.py, routes/profile.py                                     *)

\* POST /auth/login.  `ok` is the outcome of form validation and of the
\* password check; `reset_persona` is the query argument reset_persona=1.
login_post(s, user, ok, reset_persona) ==
    IF ~ok THEN Reject(401)
    ELSE /\ session' = [session EXCEPT ![s] =
                [user_id |-> user,
                 active_persona_id |-> IF reset_persona THEN None ELSE @.active_persona_id]]
         /\ resp' = Resp(302, <<>>)
         /\ UNCHANGED <<db, reqs, site>>

\* /auth/logout
logout(s) ==
    /\ session' = [session EXCEPT ![s] = [user_id |-> None, active_persona_id |-> None]]
    /\ resp' = Resp(302, <<>>)
    /\ UNCHANGED <<db, reqs, site>>

\* The 'persona_id' of a switch request: a JSON integer n, a JSON number with a
\* fraction that int() truncates to n (1.5 for n = 1), a non-numeric string, or
\* no value.
PersonaData ==
    [kind : {"int", "float"}, n : 0..(MaxPersonas + 1)]
        \cup {[kind |-> "str", n |-> 0], [kind |-> "missing", n |-> 0]}

\* POST /api/persona/switch
persona_switch(s, data) ==
    IF Anonymous(s) THEN Unauthorized
    ELSE IF data.kind = "missing" \/ (data.kind = "int" /\ data.n = 0)
    THEN /\ session' = [session EXCEPT ![s].active_persona_id = None]
         /\ resp' = Resp(200, [persona_id |-> None])
         /\ UNCHANGED <<db, reqs, site>>
    ELSE IF data.kind = "str" THEN Reject(400)
    ELSE IF data.n \notin DOMAIN personas \/ personas[data.n].user_id # session[s].user_id
    THEN /\ resp' = Resp(403, [error |-> "Invalid persona."])
         /\ UNCHANGED <<session, db, reqs, site>>
    ELSE /\ session' = [session EXCEPT ![s].active_persona_id = data.n]
         /\ resp' = Resp(200, [persona_id |-> data.n])
         /\ UNCHANGED <<db, reqs, site>>

\* The names a persona is given in the forms; a new persona carries the first.
PersonaNames == {"n", "a"}

NewPersona(user_id) == [user_id |-> user_id, name |-> "n"]

\* POST /persona/create; `valid` is the outcome of EditPersonaForm validation.
create_persona_post(s, valid) ==
    IF Anonymous(s) THEN Unauthorized
    ELSE IF ~valid THEN Reject(400)
    ELSE /\ personas' = Append(personas, NewPersona(session[s].user_id))
         /\ resp' = Resp(302, <<>>)
         /\ UNCHANGED <<session, posts, nextPostId, comments, nextCommentId, votes, saved, reqs, site>>

\* POST /create-persona
create_persona_quick(s) ==
    IF Anonymous(s) THEN Unauthorized
    ELSE /\ personas' = Append(personas, NewPersona(session[s].user_id))
         /\ resp' = Resp(302, <<>>)
         /\ UNCHANGED <<session, posts, nextPostId, comments, nextCommentId, votes, saved, reqs, site>>

\* POST /edit-persona/<persona_id> without the ownership test.
edit_persona_post_AnyAccount(s, persona_id, valid, name) ==
    IF Anonymous(s) THEN Unauthorized
    ELSE IF persona_id \notin DOMAIN personas THEN Reject(404)
    ELSE IF ~valid THEN Reject(400)
    ELSE /\ personas' = [personas EXCEPT ![persona_id].name = name]
         /\ resp' = Resp(302, <<>>)
         /\ UNCHANGED <<session, posts, nextPostId, comments, nextCommentId, votes, saved, reqs, site>>

\* POST /edit-persona/<persona_id>; `valid` is the outcome of EditPersonaForm
\* validation, `name` the submitted name. Only the profile fields are assigned.
edit_persona_post(s, persona_id, valid, name) ==
    IF Anonymous(s) THEN Unauthorized
    ELSE IF persona_id \notin DOMAIN personas THEN Reject(404)
    ELSE IF personas[persona_id].user_id # session[s].user_id THEN Reject(403)
    ELSE IF ~valid THEN Reject(400)
    ELSE /\ personas' = [personas EXCEPT ![persona_id].name = name]
         /\ resp' = Resp(302, <<>>)
         /\ UNCHANGED <<session, posts, nextPostId, comments, nextCommentId, votes, saved, reqs, site>>

----------------------------------------------------------------------------
(* The vote ledger: routes/api.py, vote *)

\* int(data.get("vote", 0)), with ValueError and TypeError turned into 0.
ParseVote(data) == IF data.kind = "int" THEN data.n ELSE 0

\* old_vote.value if old_vote else 0, old_vote being .first() of the identity's
\* rows: without ORDER BY any of them may come first.
OldValues(mine) == IF mine = {} THEN {0} ELSE {v.value : v \in mine}

\* Mutation: the new vote is inserted without deleting the identity's rows.
VoteRows_NoDelete(rows, post_id, ident, value) ==
    IF value # 0 THEN BagInsert(rows, NewVote(post_id, ident, value)) ELSE rows

\* Mutation: a vote of 0 leaves the identity's rows in place.
VoteRows_KeepOnUnvote(rows, post_id, ident, value) ==
    IF value # 0
    THEN BagInsert(BagDelete(rows, VotesBy(rows, post_id, ident)), NewVote(post_id, ident, value))
    ELSE rows

\* Mutation: only the row the lookup returned is deleted.
VoteRows_DeleteFirst(rows, post_id, ident, value) ==
    LET mine == VotesBy(rows, post_id, ident)
        kept == IF mine = {} THEN rows ELSE rows (-) SetToBag({CHOOSE v \in mine : TRUE}) IN
    IF value # 0
    THEN BagInsert(kept, NewVote(post_id, ident, value))
    ELSE kept

\* The Vote rows after the bulk delete and the insert of the new vote.
VoteRows(rows, post_id, ident, value) ==
    LET kept == BagDelete(rows, VotesBy(rows, post_id, ident)) IN
    IF value # 0
    THEN BagInsert(kept, NewVote(post_id, ident, value))
    ELSE kept

\* Mutation: the counter is decremented without the clamp.
AdjustUp_NoClamp(upvotes, old_value, value) ==
    LET removed == IF old_value = 1 THEN upvotes - 1 ELSE upvotes IN
    IF value = 1 THEN removed + 1 ELSE removed

\* Remove the effect of the old vote (clamped at 0), add the effect of the new.
AdjustUp(upvotes, old_value, value) ==
    LET removed == IF old_value = 1 THEN Max(0, upvotes - 1) ELSE upvotes IN
    IF value = 1 THEN removed + 1 ELSE removed

AdjustDown(downvotes, old_value, value) ==
    LET removed == IF old_value = -1 THEN Max(0, downvotes - 1) ELSE downvotes IN
    IF value = -1 THEN removed + 1 ELSE removed

\* Mutation: a removed downvote is credited to the upvotes, which keeps the
\* score but not the two counters.
VoteCounters_ScoreOnly(post, old_value, value) ==
    [post EXCEPT !.upvotes = AdjustUp(@, old_value, value) + (IF old_value = -1 THEN 1 ELSE 0),
                 !.downvotes = IF value = -1 THEN @ + 1 ELSE @]

VoteCounters(post, old_value, value) ==
    [post EXCEPT !.upvotes = AdjustUp(@, old_value, value),
                 !.downvotes = AdjustDown(@, old_value, value)]

\* Mutation: the score adds the downvotes.
VotePayload_Sum(post, value) ==
    [upvotes |-> post.upvotes, downvotes |-> post.downvotes, vote |-> value,
     score |-> post.upvotes + post.downvotes]

VotePayload(post, value) ==
    [upvotes |-> post.upvotes, downvotes |-> post.downvotes, vote |-> value,
     score |-> post.upvotes - post.downvotes]

\* POST /api/post/<post_id>/vote, handled without interleaving.
vote(s, post_id, data) ==
    LET value == ParseVote(data) IN
    IF Anonymous(s) THEN Unauthorized
    ELSE IF value \notin {-1, 0, 1} THEN Reject(400)
    ELSE IF ~PostExists(post_id) THEN Reject(404)
    ELSE LET ident == get_identity(session[s])
             post == PostRow(post_id)
         IN \E old_value \in OldValues(VotesBy(votes, post_id, ident)) :
              LET newpost == VoteCounters(post, old_value, value) IN
              /\ votes' = VoteRows(votes, post_id, ident, value)
              /\ posts' = (posts \ {post}) \cup {newpost}
              /\ session' = [session EXCEPT ![s] = session_after_identity(session[s])]
              /\ resp' = Resp(200, VotePayload(newpost, value))
              /\ UNCHANGED <<personas, nextPostId, comments, nextCommentId, saved, reqs, site>>

----------------------------------------------------------------------------
(* The save ledger: routes/api.py, save *)

\* bool(data.get("save", True))
ParseSave(data) == data # "false"

\* Mutation: a row is inserted whether or not the identity has saved the post.
SaveRows_AlwaysInsert(rows, post_id, ident, save_value) ==
    IF save_value THEN BagInsert(rows, NewSavedPost(post_id, ident)) ELSE rows

\* Mutation: unsaving leaves the row in place.
SaveRows_KeepOnUnsave(rows, post_id, ident, save_value) ==
    IF save_value /\ SavesBy(rows, post_id, ident) = {}
    THEN BagInsert(rows, NewSavedPost(post_id, ident))
    ELSE rows

\* existing = ...first(); insert when saving and none exists, delete the row
\* found when unsaving.
SaveRows(rows, post_id, ident, save_value) ==
    LET mine == SavesBy(rows, post_id, ident) IN
    IF save_value
    THEN IF mine = {} THEN BagInsert(rows, NewSavedPost(post_id, ident)) ELSE rows
    ELSE IF mine = {} THEN rows
         ELSE rows (-) SetToBag({CHOOSE existing \in mine : TRUE})

\* jsonify({"success": True, "is_saved": ...})
SavePayload(save_value) == [is_saved |-> save_value]

\* Mutation: the post is not looked up before the ledger is changed.
save_NoLookup(s, post_id, data) ==
    IF Anonymous(s) THEN Unauthorized
    ELSE /\ session' = [session EXCEPT ![s] = session_after_identity(session[s])]
         /\ saved' = SaveRows(saved, post_id, get_identity(session[s]), ParseSave(data))
         /\ resp' = Resp(200, SavePayload(ParseSave(data)))
         /\ UNCHANGED <<personas, posts, nextPostId, comments, nextCommentId, votes, reqs, site>>

save(s, post_id, data) ==
    LET save_value == ParseSave(data) IN
    IF Anonymous(s) THEN Unauthorized
    ELSE IF ~PostExists(post_id) THEN Reject(404)
    ELSE LET ident == get_identity(session[s]) IN
         /\ session' = [session EXCEPT ![s] = session_after_identity(session[s])]
         /\ saved' = SaveRows(saved, post_id, ident, save_value)
         /\ resp' = Resp(200, SavePayload(save_value))
         /\ UNCHANGED <<personas, posts, nextPostId, comments, nextCommentId, votes, reqs, site>>

----------------------------------------------------------------------------
(* Posts: routes/post.py *)

\* PostForm: title InputRequired, Length(min=3); body InputRequired, Length(min=1).
PostFormValid(title, body) == Len(title) >= MinTitleLen /\ Len(body) >= 1

\* POST /post/create
create_post_post(s, title, body, community_id) ==
    IF Anonymous(s) THEN Unauthorized
    ELSE IF ~PostFormValid(title, body) THEN RejectResolved(s, 400)
    ELSE IF community_id \notin Communities THEN RejectResolved(s, 400)
    ELSE LET ident == get_identity(session[s]) IN
         /\ posts' = posts \cup {NewPost(nextPostId, community_id, strip(title), strip(body), ident)}
         /\ nextPostId' = nextPostId + 1
         /\ session' = [session EXCEPT ![s] = session_after_identity(session[s])]
         /\ resp' = Resp(302, [post_id |-> nextPostId, flash |-> "Posted."])
         /\ UNCHANGED <<personas, comments, nextCommentId, votes, saved, reqs, site>>

\* POST /post/<post_id>/edit
edit_post_post(s, post_id, title, body) ==
    IF Anonymous(s) THEN Unauthorized
    ELSE IF ~PostExists(post_id) THEN Reject(404)
    ELSE LET ident == get_identity(session[s])
             post == PostRow(post_id)
         IN IF ~owns(post, ident) THEN Forbidden(s, "You can only edit your own posts.")
            ELSE IF ~PostFormValid(title, body) THEN RejectResolved(s, 400)
            ELSE /\ posts' = (posts \ {post}) \cup
                        {[post EXCEPT !.title = strip(title), !.body = strip(body)]}
                 /\ session' = [session EXCEPT ![s] = session_after_identity(session[s])]
                 /\ resp' = Resp(302, [post_id |-> post_id, flash |-> "Post updated successfully."])
                 /\ UNCHANGED <<personas, nextPostId, comments, nextCommentId, votes, saved, reqs, site>>

\* Mutation: the post is deleted without its votes.
delete_post_KeepVotes(s, post_id) ==
    IF Anonymous(s) THEN Unauthorized
    ELSE IF ~PostExists(post_id) THEN Reject(404)
    ELSE IF ~owns(PostRow(post_id), get_identity(session[s]))
    THEN Forbidden(s, "You can only delete your own posts.")
    ELSE /\ posts' = posts \ {PostRow(post_id)}
         /\ comments' = {c \in comments : c.post_id # post_id}
         /\ saved' = BagDelete(saved, {sp \in DOMAIN saved : sp.post_id = post_id})
         /\ session' = [session EXCEPT ![s] = session_after_identity(session[s])]
         /\ resp' = Resp(302, <<>>)
         /\ UNCHANGED <<personas, nextPostId, nextCommentId, votes, reqs, site>>

\* POST /post/<post_id>/delete.  The relationships of Post cascade the delete
\* to its comments, votes and saved_posts.
delete_post(s, post_id) ==
    IF Anonymous(s) THEN Unauthorized
    ELSE IF ~PostExists(post_id) THEN Reject(404)
    ELSE LET ident == get_identity(session[s])
             post == PostRow(post_id)
         IN IF ~owns(post, ident) THEN Forbidden(s, "You can only delete your own posts.")
            ELSE /\ posts' = posts \ {post}
                 /\ comments' = {c \in comments : c.post_id # post_id}
                 /\ votes' = BagDelete(votes, {v \in DOMAIN votes : v.post_id = post_id})
                 /\ saved' = BagDelete(saved, {sp \in DOMAIN saved : sp.post_id = post_id})
                 /\ session' = [session EXCEPT ![s] = session_after_identity(session[s])]
                 /\ resp' = Resp(302, <<>>)
                 /\ UNCHANGED <<personas, nextPostId, nextCommentId, reqs, site>>

----------------------------------------------------------------------------
(* Comments: routes/api.py add_comment_api, routes/post.py *)

\* `if parent_comment_id:` then int(parent_comment_id)
ParentGiven(data) == ~(data.kind = "int" /\ data.n = 0)

\* Mutation: the parent only has to exist.
ParentValid_AnyPost(parent_comment_id, post_id) == CommentExists(parent_comment_id)

\* `if not parent or parent.post_id != post.id:` is the rejection.
ParentValid(parent_comment_id, post_id) ==
    CommentExists(parent_comment_id) /\ CommentRow(parent_comment_id).post_id = post_id

\* POST /api/post/<post_id>/comment
add_comment_api(s, post_id, body, parent) ==
    IF Anonymous(s) THEN Unauthorized
    ELSE IF strip(body) = <<>> THEN Reject(400)
    ELSE IF ~PostExists(post_id) THEN Reject(404)
    ELSE IF ParentGiven(parent) /\ parent.kind = "str" THEN Reject(400)
    ELSE IF ParentGiven(parent) /\ ~ParentValid(parent.n, post_id) THEN Reject(400)
    ELSE LET ident == get_identity(session[s]) IN
         /\ comments' = comments \cup
                {NewComment(nextCommentId, post_id, strip(body), parent.n, ident)}
         /\ nextCommentId' = nextCommentId + 1
         /\ session' = [session EXCEPT ![s] = session_after_identity(session[s])]
         /\ resp' = Resp(200, [comment_id |-> nextCommentId])
         /\ UNCHANGED <<personas, posts, nextPostId, votes, saved, reqs, site>>

\* CommentForm: body InputRequired, Length(min=1, max=5000)
CommentFormValid(body) == Len(body) >= 1

\* POST /post/<post_id>/comment (the form route)
add_comment(s, post_id, body, parent) ==
    IF Anonymous(s) THEN Unauthorized
    ELSE IF ~PostExists(post_id) THEN Reject(404)
    ELSE IF ~CommentFormValid(body) THEN Reject(302)
    ELSE IF parent.kind = "str" THEN Reject(500)
    ELSE IF ParentGiven(parent) /\ ~ParentValid(parent.n, post_id) THEN Reject(400)
    ELSE LET ident == get_identity(session[s]) IN
         /\ comments' = comments \cup
                {NewComment(nextCommentId, post_id, strip(body), parent.n, ident)}
         /\ nextCommentId' = nextCommentId + 1
         /\ session' = [session EXCEPT ![s] = session_after_identity(session[s])]
         /\ resp' = Resp(302, [comment_id |-> nextCommentId, flash |-> "Comment posted."])
         /\ UNCHANGED <<personas, posts, nextPostId, votes, saved, reqs, site>>

\* POST /comment/<comment_id>/edit
edit_comment(s, comment_id, body) ==
    IF Anonymous(s) THEN Unauthorized
    ELSE IF ~CommentExists(comment_id) THEN Reject(404)
    ELSE LET ident == get_identity(session[s])
             comment == CommentRow(comment_id)
         IN IF ~owns(comment, ident) THEN Forbidden(s, "You can only edit your own comments.")
            ELSE IF strip(body) = <<>> THEN RejectResolved(s, 400)
            ELSE /\ comments' = (comments \ {comment}) \cup
                        {[comment EXCEPT !.body = strip(body)]}
                 /\ session' = [session EXCEPT ![s] = session_after_identity(session[s])]
                 /\ resp' = Resp(200, [body |-> strip(body)])
                 /\ UNCHANGED <<personas, posts, nextPostId, nextCommentId, votes, saved, reqs, site>>

\* Mutation: the replies keep the id of the deleted comment as parent.
delete_comment_KeepReplies(s, comment_id) ==
    IF Anonymous(s) THEN Unauthorized
    ELSE IF ~CommentExists(comment_id) THEN Reject(404)
    ELSE IF ~owns(CommentRow(comment_id), get_identity(session[s]))
    THEN Forbidden(s, "You can only delete your own comments.")
    ELSE /\ comments' = comments \ {CommentRow(comment_id)}
         /\ session' = [session EXCEPT ![s] = session_after_identity(session[s])]
         /\ resp' = Resp(200, <<>>)
         /\ UNCHANGED <<personas, posts, nextPostId, nextCommentId, votes, saved, reqs, site>>

\* POST /comment/<comment_id>/delete.  Comment.children is a backref without
\* a delete cascade: the unit of work sets the replies' parent_comment_id to NULL.
delete_comment(s, comment_id) ==
    IF Anonymous(s) THEN Unauthorized
    ELSE IF ~CommentExists(comment_id) THEN Reject(404)
    ELSE LET ident == get_identity(session[s])
             comment == CommentRow(comment_id)
         IN IF ~owns(comment, ident) THEN Forbidden(s, "You can only delete your own comments.")
            ELSE /\ comments' =
                        {IF c.parent_comment_id = comment_id
                         THEN [c EXCEPT !.parent_comment_id = None] ELSE c :
                            c \in comments \ {comment}}
                 /\ session' = [session EXCEPT ![s] = session_after_identity(session[s])]
                 /\ resp' = Resp(200, <<>>)
                 /\ UNCHANGED <<personas, posts, nextPostId, nextCommentId, votes, saved, reqs, site>>

----------------------------------------------------------------------------
(* Serial specification: every request is handled to completion before the  *)
(* next one starts.                                                         *)

Init ==
    /\ session = [s \in Sessions |-> [user_id |-> None, active_persona_id |-> None]]
    /\ personas = <<>>
    /\ posts = {}
    /\ nextPostId = 1
    /\ comments = {}
    /\ nextCommentId = 1
    /\ votes = EmptyBag
    /\ saved = EmptyBag
    /\ resp = Resp(0, <<>>)
    /\ reqs = [s \in Sessions |-> IdleReq]
    /\ InitSite

\* Room for one more row in the ledgers and the comment table.
RowBudget == BagCardinality(votes) + BagCardinality(saved) + Cardinality(comments) < MaxRows

IdentityNext ==
    \/ \E s \in Browser, u \in Users, ok \in BOOLEAN, reset \in BOOLEAN : login_post(s, u, ok, reset)
    \/ \E s \in Browser : logout(s)
    \/ \E s \in Browser, data \in PersonaData : persona_switch(s, data)
    \/ \E s \in Browser, valid \in BOOLEAN : Len(personas) < MaxPersonas /\ create_persona_post(s, valid)
    \/ \E s \in Browser : Len(personas) < MaxPersonas /\ create_persona_quick(s)

\* Inputs of the serial specification: a rejected and two accepted bodies, the
\* three vote values and a rejected one, no parent, a parent id and a malformed one.
SpecBodies == {<<>>, <<"x">>, <<"y", " ">>}
SpecVotes == {d \in VoteData : d.kind = "int" /\ d.n >= -1}
SpecParents == {d \in ParentData : d.n <= 1}

PostNext ==
    \/ \E s \in Browser, title \in Titles, body \in SpecBodies, c \in Communities \cup {2} :
          nextPostId <= MaxPosts /\ create_post_post(s, title, body, c)
    \/ \E s \in Browser, p \in PostIds, title \in Titles, body \in SpecBodies : edit_post_post(s, p, title, body)
    \/ \E s \in Browser, p \in PostIds : delete_post(s, p)

Next ==
    \/ IdentityNext
    \/ PostNext
    \/ \E s \in Browser, p \in ReqPostIds, data \in SpecVotes :
          (RowBudget \/ ParseVote(data) = 0 \/ ~PostExists(p)) /\ vote(s, p, data)
    \/ \E s \in Browser, p \in ReqPostIds, data \in SaveData :
          (RowBudget \/ ~ParseSave(data) \/ ~PostExists(p)) /\ save(s, p, data)
    \/ \E s \in Browser, p \in ReqPostIds, body \in SpecBodies, parent \in SpecParents :
          (RowBudget \/ ~PostExists(p)) /\ nextCommentId <= MaxComments /\ add_comment_api(s, p, body, parent)
    \/ \E s \in Browser, p \in ReqPostIds, body \in SpecBodies, parent \in SpecParents :
          (RowBudget \/ ~PostExists(p)) /\ nextCommentId <= MaxComments /\ add_comment(s, p, body, parent)
    \/ \E s \in Browser, c \in CommentIds, body \in SpecBodies : edit_comment(s, c, body)
    \/ \E s \in Browser, c \in CommentIds : delete_comment(s, c)

Spec == Init /\ [][Next]_vars

\* Identities as disjoint values: <<account id, None>> or <<None, persona id>>.
AuthorOf(r) == <<r.author_user_id, r.author_persona_id>>
Voter(v) == <<v.voted_by_user_id, v.voted_by_persona_id>>
Saver(sp) == <<sp.saved_by_user_id, sp.saved_by_persona_id>>
ExactlyOne(pair) == (pair[1] # None /\ pair[2] = None) \/ (pair[1] = None /\ pair[2] # None)

\* The identity acting in session s, as resolved at the start of a request.
ActingIdentity(s) ==
    LET ident == get_identity(session[s]) IN
    IF is_persona(ident) THEN <<None, persona_id_of(ident)>> ELSE <<ident.user_id, None>>

AllExactlyOne ==
    /\ \A p \in posts : ExactlyOne(AuthorOf(p))
    /\ \A c \in comments : ExactlyOne(AuthorOf(c))
    /\ \A v \in DOMAIN votes : ExactlyOne(Voter(v))
    /\ \A sp \in DOMAIN saved : ExactlyOne(Saver(sp))

\* C5: every Post, Comment, Vote and SavedPost row has exactly one identity
\* field set, and the row a request has just created carries the persona field
\* when the acting identity is a persona and the account field otherwise.
C5_ExactlyOneIdentity ==
    /\ AllExactlyOne
    /\ \A s \in Browser :
         /\ (resp.status = 302 /\ DOMAIN resp.body = {"post_id", "flash"} /\ resp.body.flash = "Posted.")
               => AuthorOf(PostRow(resp.body.post_id)) = ActingIdentity(s)
         /\ (resp.status \in {200, 302} /\ "comment_id" \in DOMAIN resp.body)
               => AuthorOf(CommentRow(resp.body.comment_id)) = ActingIdentity(s)
         /\ (resp.status = 200 /\ "vote" \in DOMAIN resp.body /\ resp.body.vote # 0)
               => \E v \in DOMAIN votes : Voter(v) = ActingIdentity(s) /\ v.value = resp.body.vote
         /\ (resp.status = 200 /\ "is_saved" \in DOMAIN resp.body /\ resp.body.is_saved)
               => \E sp \in DOMAIN saved : Saver(sp) = ActingIdentity(s)

\* A persona has written a post and has just commented on it.
C5_Witness ==
    /\ \E p \in posts : p.author_persona_id # None
    /\ "comment_id" \in DOMAIN resp.body
    /\ \E c \in comments : c.author_persona_id # None /\ c.author_user_id = None

\* The selection stored in session s names a persona that is missing or that
\* another account owns.
Stale(s) ==
    /\ session[s].user_id # None
    /\ session[s].active_persona_id # None
    /\ \/ session[s].active_persona_id \notin DOMAIN personas
       \/ personas[session[s].active_persona_id].user_id # session[s].user_id

ResolvedToOwnPersona(s) ==
    LET ident == get_identity(session[s]) IN
    is_persona(ident) =>
        /\ persona_id_of(ident) \in DOMAIN personas
        /\ personas[persona_id_of(ident)].user_id = session[s].user_id

\* A request of session s that reached get_identity().
Resolves(s) ==
    \/ \E p \in PostIds, data \in SpecVotes : vote(s, p, data) /\ resp'.status = 200
    \/ \E p \in PostIds, data \in SaveData : save(s, p, data) /\ resp'.status = 200
    \/ \E p \in PostIds, body \in SpecBodies, parent \in SpecParents :
          add_comment_api(s, p, body, parent) /\ resp'.status = 200
    \/ \E title \in Titles, body \in SpecBodies, c \in Communities \cup {2} :
          create_post_post(s, title, body, c) /\ resp'.status # 401
    \/ \E p \in PostIds : delete_post(s, p) /\ resp'.status \in {302, 403}
    \/ \E c \in CommentIds : delete_comment(s, c) /\ resp'.status \in {200, 403}

\* C6: get_identity yields a persona only if it exists and the authenticated
\* account owns it; a selection of another account's persona resolves to the
\* account and is cleared from the session.
C6_IdentityResolution ==
    [][/\ \A s \in Sessions : ResolvedToOwnPersona(s)'
       /\ \A s \in Browser :
            Stale(s) =>
               /\ ActingIdentity(s) = <<session[s].user_id, None>>
               /\ Resolves(s) => session'[s] = [user_id |-> session[s].user_id,
                                                active_persona_id |-> None]
      ]_vars

\* An account is logged in while the session still selects a persona of the
\* other account.
C6_Witness == \E s \in Browser : Stale(s)

\* C7: a persona-authored post or comment is edited or deleted only while that
\* persona is the acting identity; any other identity is refused and the
\* record, with everything hanging from it, stays as it is.
C7_PersonaRecordsGuarded ==
    [][\A s \in Browser :
          /\ \A p \in PostIds :
               (/\ PostExists(p)
                /\ PostRow(p).author_persona_id # None
                /\ ActingIdentity(s) # AuthorOf(PostRow(p))
                /\ \/ \E title \in Titles, body \in SpecBodies : edit_post_post(s, p, title, body)
                   \/ delete_post(s, p))
                  => /\ resp'.status \in {401, 403}
                     /\ UNCHANGED <<posts, comments, votes, saved>>
          /\ \A c \in CommentIds :
               (/\ CommentExists(c)
                /\ CommentRow(c).author_persona_id # None
                /\ ActingIdentity(s) # AuthorOf(CommentRow(c))
                /\ \/ \E body \in SpecBodies : edit_comment(s, c, body)
                   \/ delete_comment(s, c))
                  => /\ resp'.status \in {401, 403}
                     /\ UNCHANGED <<posts, comments, votes, saved>>
      ]_vars

\* The account that owns the author persona of a post has just been refused
\* the edit of that post, acting as itself or as another of its personas.
C7_Witness ==
    /\ resp = Resp(403, [error |-> "You can only edit your own posts."])
    /\ \E s \in Browser, p \in posts :
          /\ p.author_persona_id # None
          /\ personas[p.author_persona_id].user_id = session[s].user_id
          /\ session[s].active_persona_id \notin {None, p.author_persona_id}

\* C8 as claimed: edit and delete proceed only if the record's author equals
\* the acting identity taken as a disjoint value.
C8_DisjointIdentityGuard ==
    [][\A s \in Browser :
          /\ \A p \in PostIds :
               (/\ PostExists(p)
                /\ ActingIdentity(s) # AuthorOf(PostRow(p))
                /\ \/ \E title \in Titles, body \in SpecBodies : edit_post_post(s, p, title, body)
                   \/ delete_post(s, p))
                  => UNCHANGED <<posts, comments, votes, saved>>
          /\ \A c \in CommentIds :
               (/\ CommentExists(c)
                /\ ActingIdentity(s) # AuthorOf(CommentRow(c))
                /\ \/ \E body \in SpecBodies : edit_comment(s, c, body)
                   \/ delete_comment(s, c))
                  => UNCHANGED <<posts, comments, votes, saved>>
      ]_vars

----------------------------------------------------------------------------
(* Serial specification of the vote ledger: logins, persona selection,      *)
(* posts and votes by every identity, without a bound on the ledger.        *)

NextVote ==
    \/ IdentityNext
    \/ \E s \in Browser, body \in {<<"x">>} :
          nextPostId <= MaxPosts /\ create_post_post(s, <<"t", "t", "t">>, body, 1)
    \/ \E s \in Browser, p \in PostIds : edit_post_post(s, p, <<"t", "t", "t">>, <<"x">>)
    \/ \E s \in Browser, p \in PostIds : delete_post(s, p)
    \/ \E s \in Browser, p \in ReqPostIds, data \in VoteData : vote(s, p, data)

SpecVote == Init /\ [][NextVote]_vars

VotesOn(post_id, value) ==
    BagCount(votes, {v \in DOMAIN votes : v.post_id = post_id /\ v.value = value})

VoteUnique ==
    /\ \A v \in DOMAIN votes : votes[v] = 1
    /\ \A v1 \in DOMAIN votes, v2 \in DOMAIN votes :
          (v1.post_id = v2.post_id /\ Voter(v1) = Voter(v2)) => v1 = v2

ScoreIsSum ==
    \A p \in posts :
        p.upvotes - p.downvotes = VotesOn(p.id, 1) - VotesOn(p.id, -1)

\* C1: after any serial sequence of votes on posts created without votes, each
\* (post, identity) has at most one Vote row and upvotes - downvotes of every
\* post is the sum of the values of its Vote rows.
C1_VoteLedger == VoteUnique /\ ScoreIsSum

\* A post carrying an upvote and a downvote of two identities, the last
\* request having changed a vote.
C1_Witness ==
    /\ resp.status = 200 /\ DOMAIN resp.body = {"upvotes", "downvotes", "vote", "score"}
    /\ \E p \in posts : p.upvotes = 1 /\ p.downvotes = 1
    /\ \E v1 \in DOMAIN votes, v2 \in DOMAIN votes : v1.value = 1 /\ v2.value = -1

\* The Vote rows of the identity acting in session s on a post.
CallerVotes(s, post_id) == VotesBy(votes, post_id, get_identity(session[s]))
OnlyVote(s, post_id, value) ==
    /\ BagCardinality(votes) = 1
    /\ \A v \in CallerVotes(s, post_id) : v.value = value
    /\ CallerVotes(s, post_id) # {}
AsAccount(s) == ~is_persona(get_identity(session[s]))
Counters(post_id, up, down) == PostRow(post_id).upvotes = up /\ PostRow(post_id).downvotes = down

\* C9: a vote answers with the post's new upvotes and downvotes, score =
\* upvotes - downvotes and the caller's resulting vote; on a post without votes,
\* an account voting +1, then -1, then 0 is answered (1, 0, 1), (0, 1, -1), (0, 0, 0).
C9_VoteReturn ==
    [][\A s \in Browser, p \in PostIds, data \in VoteData :
          (vote(s, p, data) /\ resp'.status = 200) =>
             /\ resp'.body.upvotes = PostRow(p)'.upvotes
             /\ resp'.body.downvotes = PostRow(p)'.downvotes
             /\ resp'.body.score = PostRow(p)'.upvotes - PostRow(p)'.downvotes
             /\ resp'.body.vote = ParseVote(data)
             /\ \A v \in CallerVotes(s, p)' : v.value = resp'.body.vote
             /\ (resp'.body.vote = 0) = (CallerVotes(s, p)' = {})
             /\ (AsAccount(s) /\ votes = EmptyBag /\ Counters(p, 0, 0) /\ ParseVote(data) = 1)
                   => resp'.body = [upvotes |-> 1, downvotes |-> 0, vote |-> 1, score |-> 1]
             /\ (AsAccount(s) /\ OnlyVote(s, p, 1) /\ Counters(p, 1, 0) /\ ParseVote(data) = -1)
                   => resp'.body = [upvotes |-> 0, downvotes |-> 1, vote |-> -1, score |-> -1]
             /\ (AsAccount(s) /\ OnlyVote(s, p, -1) /\ Counters(p, 0, 1) /\ ParseVote(data) = 0)
                   => resp'.body = [upvotes |-> 0, downvotes |-> 0, vote |-> 0, score |-> 0]
      ]_vars

\* An account has changed its upvote into a downvote: the second answer of the scenario.
C9_Witness ==
    /\ resp = Resp(200, [upvotes |-> 0, downvotes |-> 1, vote |-> -1, score |-> -1])
    /\ \E s \in Browser, p \in PostIds : PostExists(p) /\ AsAccount(s) /\ OnlyVote(s, p, -1)

\* Voting 0 again as the identity of session s leaves the ledger, the counters,
\* the session and the answer as they are.
UnvoteAgainSame(s, post_id) ==
    LET ident == get_identity(session[s])
        post == PostRow(post_id)
    IN \A old_value \in OldValues(VotesBy(votes, post_id, ident)) :
          /\ VoteRows(votes, post_id, ident, 0) = votes
          /\ VoteCounters(post, old_value, 0) = post
          /\ session_after_identity(session[s]) = session[s]
          /\ Resp(200, VotePayload(VoteCounters(post, old_value, 0), 0)) = resp

\* C10: cast_vote(P, I, 0) is idempotent: a second call right after the first
\* leaves the same Vote rows and counters and returns the same aggregate.
C10_UnvoteIdempotent ==
    [][\A s \in Browser, p \in PostIds, data \in VoteData :
          (vote(s, p, data) /\ ParseVote(data) = 0 /\ resp'.status = 200)
             => UnvoteAgainSame(s, p)'
      ]_vars

\* A vote of 0 has just removed an upvote from a post that keeps another one.
C10_Witness ==
    /\ resp = Resp(200, [upvotes |-> 1, downvotes |-> 0, vote |-> 0, score |-> 1])
    /\ BagCardinality(votes) = 1

----------------------------------------------------------------------------
(* Concurrent specification of the vote handler.  Each browser has at most  *)
(* one vote request in flight; the requests of different browsers           *)
(* interleave at their database statements (PostgreSQL, READ COMMITTED).    *)
(* The tables hold the committed rows.  reqs[r].locked says that the        *)
(* DELETE of request r matched the committed row of its (post, identity),   *)
(* which the unique indexes of Vote keep single.                            *)

SameTarget(r1, r2) ==
    /\ reqs[r1].post_id = reqs[r2].post_id
    /\ reqs[r1].ident = reqs[r2].ident

\* Lines 326-347: validation, Post.query.get_or_404, get_identity, the lookup
\* of the identity's existing vote.
vote_begin(r, post_id, data) ==
    LET value == ParseVote(data) IN
    /\ reqs[r].pc = "idle"
    /\ UNCHANGED <<db, resp, site>>
    /\ IF Anonymous(r)
       THEN reqs' = [reqs EXCEPT ![r].pc = "rejected", ![r].resp = Resp(401, <<>>)]
            /\ UNCHANGED session
       ELSE IF value \notin {-1, 0, 1}
       THEN reqs' = [reqs EXCEPT ![r].pc = "rejected", ![r].resp = Resp(400, <<>>)]
            /\ UNCHANGED session
       ELSE IF ~PostExists(post_id)
       THEN reqs' = [reqs EXCEPT ![r].pc = "rejected", ![r].resp = Resp(404, <<>>)]
            /\ UNCHANGED session
       ELSE LET ident == get_identity(session[r]) IN
            \E old_value \in OldValues(VotesBy(votes, post_id, ident)) :
               /\ reqs' = [reqs EXCEPT ![r] = [IdleReq EXCEPT !.pc = "delete",
                                                  !.post_id = post_id, !.value = value,
                                                  !.ident = ident, !.old_value = old_value]]
               /\ session' = [session EXCEPT ![r] = session_after_identity(session[r])]

\* Lines 349-357: the bulk DELETE of the identity's rows, uncommitted.
vote_delete(r) ==
    /\ reqs[r].pc = "delete"
    /\ reqs' = [reqs EXCEPT ![r].pc = "commit_rows",
                            ![r].locked = (VotesBy(votes, reqs[r].post_id, reqs[r].ident) # {})]
    /\ UNCHANGED <<session, db, resp, site>>

\* Lines 359-370: the INSERT of the new vote is flushed and the transaction
\* committed.  A committed row of the same (post, identity) that the DELETE
\* did not match violates the unique index: IntegrityError, which vote() does
\* not catch; the transaction is rolled back and the request answered 500.
vote_commit_rows(r) ==
    LET req == reqs[r]
        mine == VotesBy(votes, req.post_id, req.ident)
        kept == IF req.locked THEN BagDelete(votes, mine) ELSE votes
        conflict == req.value # 0 /\ VotesBy(kept, req.post_id, req.ident) # {}
    IN /\ req.pc = "commit_rows"
       /\ UNCHANGED <<session, personas, posts, nextPostId, comments, nextCommentId, saved, resp, site>>
       /\ IF conflict
          THEN /\ votes' = votes
               /\ reqs' = [reqs EXCEPT ![r].pc = "error", ![r].locked = FALSE,
                                       ![r].resp = Resp(500, <<>>)]
          ELSE /\ votes' = IF req.value # 0
                           THEN BagInsert(kept, NewVote(req.post_id, req.ident, req.value))
                           ELSE kept
               /\ reqs' = [q \in Sessions |->
                             IF q = r THEN [req EXCEPT !.pc = "refresh", !.locked = FALSE]
                             ELSE IF req.locked /\ SameTarget(q, r)
                                  THEN [reqs[q] EXCEPT !.locked = FALSE]
                                  ELSE reqs[q]]

\* Lines 376-385, first access to post.upvotes: the commit expired the Post
\* object, so its columns are loaded again from the committed row.
vote_refresh(r) ==
    /\ reqs[r].pc = "refresh"
    /\ reqs' = [reqs EXCEPT ![r].pc = "commit_counts",
                            ![r].upvotes = PostRow(reqs[r].post_id).upvotes,
                            ![r].downvotes = PostRow(reqs[r].post_id).downvotes]
    /\ UNCHANGED <<session, db, resp, site>>

\* Lines 376-397: the counters computed from the loaded values are written
\* (UPDATE of the columns whose value changed) and committed; the response is
\* built from the row as committed.
vote_commit_counts(r) ==
    LET req == reqs[r]
        post == PostRow(req.post_id)
        up == AdjustUp(req.upvotes, req.old_value, req.value)
        down == AdjustDown(req.downvotes, req.old_value, req.value)
        newpost == [post EXCEPT !.upvotes = IF up # req.upvotes THEN up ELSE @,
                                !.downvotes = IF down # req.downvotes THEN down ELSE @]
    IN /\ req.pc = "commit_counts"
       /\ posts' = (posts \ {post}) \cup {newpost}
       /\ reqs' = [reqs EXCEPT ![r].pc = "done",
                               ![r].resp = Resp(200, VotePayload(newpost, req.value))]
       /\ UNCHANGED <<session, personas, nextPostId, comments, nextCommentId, votes, saved, resp, site>>

\* The request dies between its two commits (the second commit raises, the
\* worker is killed): the open transaction is rolled back.
vote_fail(r) ==
    /\ reqs[r].pc \in {"refresh", "commit_counts"}
    /\ reqs' = [reqs EXCEPT ![r].pc = "failed", ![r].resp = Resp(500, <<>>)]
    /\ UNCHANGED <<session, db, resp, site>>

\* Start: one post of account 1, one persona of account 1, each browser logged
\* in under one of the three identities, and any ledger these identities can
\* have left on the post by serial votes.
ConcSessions ==
    {[user_id |-> 1, active_persona_id |-> None],
     [user_id |-> 1, active_persona_id |-> 1],
     [user_id |-> 2, active_persona_id |-> None]}
ConcIdentities ==
    {[active_persona |-> None, user_id |-> 1],
     [active_persona |-> 1, user_id |-> 1],
     [active_persona |-> None, user_id |-> 2]}

InitConc ==
    /\ session \in [Sessions -> ConcSessions]
    /\ personas = <<NewPersona(1)>>
    /\ \E cast \in [ConcIdentities -> {-1, 0, 1}] :
          /\ votes = SetToBag({NewVote(1, i, cast[i]) : i \in {j \in ConcIdentities : cast[j] # 0}})
          /\ posts = {[NewPost(1, 1, <<"t", "t", "t">>, <<"x">>, [active_persona |-> None, user_id |-> 1])
                         EXCEPT !.upvotes = Cardinality({i \in ConcIdentities : cast[i] = 1}),
                                !.downvotes = Cardinality({i \in ConcIdentities : cast[i] = -1})]}
    /\ nextPostId = 2
    /\ comments = {}
    /\ nextCommentId = 1
    /\ saved = EmptyBag
    /\ resp = Resp(0, <<>>)
    /\ reqs = [s \in Sessions |-> IdleReq]
    /\ InitSite

NextConc ==
    \/ \E r \in Sessions, p \in PostIds, data \in SpecVotes : vote_begin(r, p, data)
    \/ \E r \in Sessions : vote_delete(r)
    \/ \E r \in Sessions : vote_commit_rows(r)
    \/ \E r \in Sessions : vote_refresh(r)
    \/ \E r \in Sessions : vote_commit_counts(r)
    \/ \E r \in Sessions : vote_fail(r)

SpecConc == InitConc /\ [][NextConc]_vars

Finished(r) == reqs[r].pc \in {"idle", "rejected", "error", "failed", "done"}
CountersAgree ==
    \A p \in posts : p.upvotes = VotesOn(p.id, 1) /\ p.downvotes = VotesOn(p.id, -1)

\* C2 as claimed: the row mutation and the counter adjustment of a vote commit
\* together or not at all, so a request that ran alone and has ended, however
\* it ended, leaves the counters in agreement with the Vote rows.
C2_VoteAtomic ==
    \A r \in Sessions :
        (Finished(r) /\ \A q \in Sessions \ {r} : reqs[q].pc = "idle") => CountersAgree

\* C3 as claimed: concurrent votes of one identity on one post never break the
\* uniqueness of its Vote row and none of them ends in a hard failure.
C3_DuplicateConverges ==
    /\ VoteUnique
    /\ \A r \in Sessions : reqs[r].pc # "error"

\* C4 as claimed: once concurrent votes of different identities have all
\* committed, the counters of the post reflect every one of them.
C4_NoLostUpdate ==
    (/\ \A r \in Sessions : reqs[r].pc = "done"
     /\ \A r1 \in Sessions, r2 \in Sessions : r1 # r2 => reqs[r1].ident # reqs[r2].ident)
        => CountersAgree

----------------------------------------------------------------------------
(* Serial specification of the save ledger: logins, personas, posts and     *)
(* saves by every identity, without a bound on the ledger.                  *)

NextSave ==
    \/ IdentityNext
    \/ \E s \in Browser, body \in {<<"x">>} :
          nextPostId <= MaxPosts /\ create_post_post(s, <<"t", "t", "t">>, body, 1)
    \/ \E s \in Browser, p \in PostIds : delete_post(s, p)
    \/ \E s \in Browser, p \in ReqPostIds, data \in SaveData : save(s, p, data)

SpecSave == Init /\ [][NextSave]_vars

\* The SavedPost rows of the identity acting in session s on a post.
CallerSaves(s, post_id) == SavesBy(saved, post_id, get_identity(session[s]))

\* Sending the same save request again as the identity of session s leaves the
\* ledger, the session and the answer as they are.
SaveAgainSame(s, post_id, data) ==
    /\ PostExists(post_id)
    /\ SaveRows(saved, post_id, get_identity(session[s]), ParseSave(data)) = saved
    /\ session_after_identity(session[s]) = session[s]
    /\ Resp(200, SavePayload(ParseSave(data))) = resp

\* C11: set_saved is idempotent in both directions: from any reachable state,
\* a second set_saved(P, I, true) right after the first leaves the same
\* SavedPost rows and returns the same result, and likewise for false.
C11_SaveIdempotent ==
    [][\A s \in Browser, p \in ReqPostIds, data \in SaveData :
          (save(s, p, data) /\ resp'.status = 200) => SaveAgainSame(s, p, data)'
      ]_vars

\* A persona has just saved a post that its account had saved too.
C11_Witness ==
    /\ resp = Resp(200, [is_saved |-> TRUE])
    /\ \E s \in Browser, p \in PostIds :
          /\ is_persona(get_identity(session[s]))
          /\ CallerSaves(s, p) # {}
          /\ BagCardinality(saved) = 2

SaveUnique ==
    /\ \A sp \in DOMAIN saved : saved[sp] = 1
    /\ \A sp1 \in DOMAIN saved, sp2 \in DOMAIN saved :
          (sp1.post_id = sp2.post_id /\ Saver(sp1) = Saver(sp2)) => sp1 = sp2

\* C12: after any serial sequence of set_saved calls by any identities, each
\* (post, identity) has at most one SavedPost row, and the boolean a call
\* returns says whether the caller's row exists after the call: true after
\* saving, false after unsaving and after unsaving again.
C12_SaveLedger ==
    /\ []SaveUnique
    /\ [][\A s \in Browser, p \in ReqPostIds, data \in SaveData :
             (save(s, p, data) /\ resp'.status = 200) =>
                /\ resp'.body.is_saved = ParseSave(data)
                /\ resp'.body.is_saved = (CallerSaves(s, p)' # {})
                /\ CallerSaves(s, p)' = SavesBy(saved', p, get_identity(session[s]))
         ]_vars

\* A persona has just unsaved a post that its account keeps saved.
C12_Witness ==
    /\ resp = Resp(200, [is_saved |-> FALSE])
    /\ \E s \in Browser, p \in PostIds :
          /\ is_persona(get_identity(session[s]))
          /\ CallerSaves(s, p) = {}
          /\ BagCardinality(saved) = 1

----------------------------------------------------------------------------
(* Concurrent specification of the save handler: at most one save request   *)
(* per browser, interleaved at the database statements.  reqs[r].existing   *)
(* is the row the lookup returned; reqs[r].locked says that this row is     *)
(* still the committed row of its (post, identity).                         *)

\* Lines 404-413: request data, Post.query.get_or_404, get_identity, the
\* lookup of the identity's SavedPost row.
save_begin(r, post_id, data) ==
    /\ reqs[r].pc = "idle"
    /\ UNCHANGED <<db, resp, site>>
    /\ IF Anonymous(r)
       THEN reqs' = [reqs EXCEPT ![r].pc = "rejected", ![r].resp = Resp(401, <<>>)]
            /\ UNCHANGED session
       ELSE IF ~PostExists(post_id)
       THEN reqs' = [reqs EXCEPT ![r].pc = "rejected", ![r].resp = Resp(404, <<>>)]
            /\ UNCHANGED session
       ELSE LET ident == get_identity(session[r])
                found == SavesBy(saved, post_id, ident) # {}
            IN /\ reqs' = [reqs EXCEPT ![r] = [IdleReq EXCEPT !.pc = "save_commit",
                                                  !.post_id = post_id, !.ident = ident,
                                                  !.save_value = ParseSave(data),
                                                  !.existing = found, !.locked = found]]
               /\ session' = [session EXCEPT ![r] = session_after_identity(session[r])]

\* Lines 415-429: the INSERT or the DELETE of the row found is flushed and
\* committed.  Inserting while a committed row of the same (post, identity)
\* exists violates the unique index: IntegrityError, which save() does not
\* catch; the request is answered 500.  Deleting a row that another request
\* has deleted matches nothing.
save_commit(r) ==
    LET req == reqs[r]
        mine == SavesBy(saved, req.post_id, req.ident)
        insert == req.save_value /\ ~req.existing
        delete == ~req.save_value /\ req.existing /\ req.locked
    IN /\ req.pc = "save_commit"
       /\ UNCHANGED <<session, personas, posts, nextPostId, comments, nextCommentId, votes, resp, site>>
       /\ IF insert /\ mine # {}
          THEN /\ saved' = saved
               /\ reqs' = [reqs EXCEPT ![r].pc = "error", ![r].locked = FALSE,
                                       ![r].resp = Resp(500, <<>>)]
          ELSE /\ saved' = IF insert THEN BagInsert(saved, NewSavedPost(req.post_id, req.ident))
                           ELSE IF delete THEN BagDelete(saved, mine)
                           ELSE saved
               /\ reqs' = [q \in Sessions |->
                             IF q = r THEN [req EXCEPT !.pc = "done", !.locked = FALSE,
                                                       !.resp = Resp(200, SavePayload(req.save_value))]
                             ELSE IF delete /\ SameTarget(q, r)
                                  THEN [reqs[q] EXCEPT !.locked = FALSE]
                                  ELSE reqs[q]]

\* Start: as for the votes, with any ledger of saves the three identities can
\* have left on the post.
InitConcSave ==
    /\ session \in [Sessions -> ConcSessions]
    /\ personas = <<NewPersona(1)>>
    /\ posts = {NewPost(1, 1, <<"t", "t", "t">>, <<"x">>, [active_persona |-> None, user_id |-> 1])}
    /\ \E savers \in SUBSET ConcIdentities :
          saved = SetToBag({NewSavedPost(1, i) : i \in savers})
    /\ nextPostId = 2
    /\ comments = {}
    /\ nextCommentId = 1
    /\ votes = EmptyBag
    /\ resp = Resp(0, <<>>)
    /\ reqs = [s \in Sessions |-> IdleReq]
    /\ InitSite

NextConcSave ==
    \/ \E r \in Sessions, p \in ReqPostIds, data \in SaveData : save_begin(r, p, data)
    \/ \E r \in Sessions : save_commit(r)

SpecConcSave == InitConcSave /\ [][NextConcSave]_vars

\* C13 as claimed: concurrent set_saved(P, I, true) requests of one identity on
\* one post never end in a hard failure, and once all have finished exactly
\* one SavedPost row of (P, I) exists.
C13_DuplicateSaveConverges ==
    /\ \A r \in Sessions : reqs[r].save_value => reqs[r].pc # "error"
    /\ \A r1 \in Sessions, r2 \in Sessions :
          (/\ r1 # r2 /\ SameTarget(r1, r2)
           /\ reqs[r1].save_value /\ reqs[r2].save_value
           /\ Finished(r1) /\ Finished(r2) /\ reqs[r1].pc # "rejected" /\ reqs[r2].pc # "rejected")
             => BagCount(saved, SavesBy(saved, reqs[r1].post_id, reqs[r1].ident)) = 1

----------------------------------------------------------------------------
(* Serial specification of the comment threads: one account, up to          *)
(* MaxThreadPosts posts and MaxThread comments, created through both        *)
(* comment routes, edited and deleted.                                      *)

ThreadPostIds == 1..MaxThreadPosts
ThreadIds == 1..MaxThread
ThreadBodies == {<<>>, <<" ">>, <<"x">>}

NextComment ==
    \/ \E s \in Browser : login_post(s, 1, TRUE, TRUE)
    \/ \E s \in Browser :
          nextPostId <= MaxThreadPosts /\ create_post_post(s, <<"t", "t", "t">>, <<"x">>, 1)
    \/ \E s \in Browser, p \in ThreadPostIds : delete_post(s, p)
    \/ \E s \in Browser, p \in ThreadPostIds, body \in ThreadBodies, parent \in ParentData :
          nextCommentId <= MaxThread /\ add_comment_api(s, p, body, parent)
    \/ \E s \in Browser, p \in ThreadPostIds, body \in ThreadBodies, parent \in ParentData :
          nextCommentId <= MaxThread /\ add_comment(s, p, body, parent)
    \/ \E s \in Browser, c \in ThreadIds, body \in ThreadBodies : edit_comment(s, c, body)
    \/ \E s \in Browser, c \in ThreadIds : delete_comment(s, c)

SpecComment == Init /\ [][NextComment]_vars

\* Number of ancestors of a comment along parent_comment_id.
RECURSIVE Depth(_)
Depth(c) ==
    IF c.parent_comment_id = None \/ ~CommentExists(c.parent_comment_id) THEN 0
    ELSE 1 + Depth(CommentRow(c.parent_comment_id))

\* C14 as claimed: a reply to a comment whose chain is at the maximum reply
\* depth is rejected, so no comment lies deeper than the maximum.
C14_DepthBounded == \A c \in comments : Depth(c) <= MaxReplyDepth

\* C17 as claimed: every stored comment has a body that is non-empty after
\* trimming whitespace.
C17_BodyNonEmpty == \A c \in comments : strip(c.body) # <<>>


\* Every reply has its parent, and on its own post.
ParentsConsistent ==
    \A c \in comments :
        c.parent_comment_id # None =>
            /\ CommentExists(c.parent_comment_id)
            /\ CommentRow(c.parent_comment_id).post_id = c.post_id

\* The step is a comment request through either route.
AddsComment(s, post_id, body, parent) ==
    add_comment_api(s, post_id, body, parent) \/ add_comment(s, post_id, body, parent)

----------------------------------------------------------------------------
(* Rejected requests. *)

\* A value that is a number outside {-1, 0, 1} or is not a number.
InvalidVote(data) == data.kind = "str" \/ (data.kind = "int" /\ data.n \notin {-1, 0, 1})

\* C15 as claimed: a vote on an existing post whose value is out of range or
\* non-numeric is rejected as a validation error and leaves every Vote row and
\* every post counter unchanged.
C15_InvalidVoteRejected ==
    [][\A s \in Browser, p \in PostIds, data \in VoteData :
          (vote(s, p, data) /\ ~Anonymous(s) /\ PostExists(p) /\ InvalidVote(data)) =>
             resp'.status = 400 /\ votes' = votes /\ posts' = posts
      ]_vars

\* C16: a vote, a save or a comment addressed to a post id that does not exist
\* changes no row and no counter, and a logged-in caller whose request is
\* otherwise well formed is answered 404.  (A step answered 404 that leaves
\* the tables alone satisfies every conjunct below, so it is passed at once.)
C16_NotFoundNoMutation ==
    [][\A s \in Browser, p \in ReqPostIds :
          (~PostExists(p) /\ ~(resp'.status = 404 /\ UNCHANGED db)) =>
             /\ \A data \in SpecVotes :
                   vote(s, p, data) =>
                      /\ UNCHANGED db
                      /\ (~Anonymous(s) /\ ~InvalidVote(data)) => resp'.status = 404
             /\ \A data \in SaveData :
                   save(s, p, data) =>
                      /\ UNCHANGED db
                      /\ ~Anonymous(s) => resp'.status = 404
             /\ \A body \in SpecBodies, parent \in SpecParents :
                   /\ add_comment_api(s, p, body, parent) =>
                         /\ UNCHANGED db
                         /\ (~Anonymous(s) /\ strip(body) # <<>>) => resp'.status = 404
                   /\ add_comment(s, p, body, parent) =>
                         /\ UNCHANGED db
                         /\ ~Anonymous(s) => resp'.status = 404
      ]_vars

\* A request has just been answered 404 while a post exists and carries a row.
C16_Witness ==
    /\ resp.status = 404
    /\ posts # {}
    /\ BagCardinality(votes) + BagCardinality(saved) + Cardinality(comments) > 0

----------------------------------------------------------------------------
(* Serial votes from a drifted start: the counters of the post are at most  *)
(* the numbers of its Vote rows, as lost updates and requests failing       *)
(* between the two commits of vote() leave them.                            *)

InitDrift ==
    /\ session = [s \in Sessions |-> [user_id |-> None, active_persona_id |-> None]]
    /\ personas = <<NewPersona(1)>>
    /\ \E cast \in [ConcIdentities -> {-1, 0, 1}] :
          /\ votes = SetToBag({NewVote(1, i, cast[i]) : i \in {j \in ConcIdentities : cast[j] # 0}})
          /\ \E up \in 0..Cardinality({i \in ConcIdentities : cast[i] = 1}),
                down \in 0..Cardinality({i \in ConcIdentities : cast[i] = -1}) :
                posts = {[NewPost(1, 1, <<"t", "t", "t">>, <<"x">>, [active_persona |-> None, user_id |-> 1])
                            EXCEPT !.upvotes = up, !.downvotes = down]}
    /\ nextPostId = 2
    /\ comments = {}
    /\ nextCommentId = 1
    /\ saved = EmptyBag
    /\ resp = Resp(0, <<>>)
    /\ reqs = [s \in Sessions |-> IdleReq]
    /\ InitSite

NextDrift ==
    \/ \E s \in Browser, u \in Users : login_post(s, u, TRUE, TRUE)
    \/ \E s \in Browser, data \in PersonaData : persona_switch(s, data)
    \/ \E s \in Browser, p \in PostIds, data \in SpecVotes : vote(s, p, data)

SpecDrift == InitDrift /\ [][NextDrift]_vars

\* C19: in every reachable state, those reached from a drifted start
\* included, the upvotes and downvotes of every post are at least 0.
C19_CountersNonNegative == \A p \in posts : p.upvotes >= 0 /\ p.downvotes >= 0

\* An un-vote has just been answered with upvotes 0 on a post that keeps two
\* upvote rows: the counter was below its rows and stayed at 0.
C19_Witness ==
    /\ resp.status = 200 /\ DOMAIN resp.body = {"upvotes", "downvotes", "vote", "score"}
    /\ resp.body.vote = 0 /\ resp.body.upvotes = 0
    /\ VotesOn(1, 1) = 2 /\ BagCardinality(votes) = 2


\* C20: between serially handled requests, starting from posts without votes
\* and with counters 0, the upvotes of each post are the number of its Vote
\* rows of value +1 and its downvotes the number of those of value -1.
C20_CountersAreCounts ==
    \A p \in posts :
        /\ p.upvotes = BagCount(votes, {v \in DOMAIN votes : v.post_id = p.id /\ v.value = 1})
        /\ p.downvotes = BagCount(votes, {v \in DOMAIN votes : v.post_id = p.id /\ v.value = -1})

\* Three identities have voted on a post: two up, one down.
C20_Witness ==
    /\ BagCardinality(votes) = 3
    /\ \E p \in posts : p.upvotes = 2 /\ p.downvotes = 1

----------------------------------------------------------------------------
(* Serial specification of post deletion: one account, up to MaxThreadPosts *)
(* posts, each with votes, saves and comments, and their deletion.          *)

NextCascade ==
    \/ \E s \in Browser : login_post(s, 1, TRUE, TRUE)
    \/ \E s \in Browser :
          nextPostId <= MaxThreadPosts /\ create_post_post(s, <<"t", "t", "t">>, <<"x">>, 1)
    \/ \E s \in Browser, p \in ThreadPostIds : delete_post(s, p)
    \/ \E s \in Browser, p \in ThreadPostIds, data \in {d \in SpecVotes : d.n \in {-1, 1}} :
          vote(s, p, data)
    \/ \E s \in Browser, p \in ThreadPostIds : save(s, p, "true")
    \/ \E s \in Browser, p \in ThreadPostIds, parent \in ParentData :
          nextCommentId <= MaxComments /\ add_comment_api(s, p, <<"x">>, parent)

SpecCascade == Init /\ [][NextCascade]_vars

PostIdsInUse == {p.id : p \in posts}
\* Every Comment, Vote and SavedPost row belongs to an existing post.
NoOrphanRows ==
    /\ \A c \in comments : c.post_id \in PostIdsInUse
    /\ \A v \in DOMAIN votes : v.post_id \in PostIdsInUse
    /\ \A sp \in DOMAIN saved : sp.post_id \in PostIdsInUse

\* The rows of a bag that do not belong to a post.
RowsOffPost(b, post_id) == [r \in {x \in DOMAIN b : x.post_id # post_id} |-> b[r]]

\* C21: after delete_post succeeds no Comment, Vote or SavedPost row references
\* the deleted post, and the rows of the other posts are unchanged.
C21_DeleteCascades ==
    /\ []NoOrphanRows
    /\ [][\A s \in Browser, p \in ThreadPostIds :
             (delete_post(s, p) /\ PostExists(p) /\ ~PostExists(p)') =>
                /\ \A c \in comments' : c.post_id # p
                /\ \A v \in DOMAIN votes' : v.post_id # p
                /\ \A sp \in DOMAIN saved' : sp.post_id # p
                /\ posts' = posts \ {PostRow(p)}
                /\ comments' = {c \in comments : c.post_id # p}
                /\ votes' = RowsOffPost(votes, p)
                /\ saved' = RowsOffPost(saved, p)
         ]_vars

\* One of two posts has been deleted; the other keeps its vote, save and comment.
C21_Witness ==
    /\ nextPostId = 3 /\ Cardinality(posts) = 1
    /\ resp = Resp(302, <<>>)
    /\ BagCardinality(votes) = 1 /\ BagCardinality(saved) = 1 /\ comments # {}

----------------------------------------------------------------------------
(* The comment forest, under SpecComment. *)

\* The id reached from comment id after k steps along parent_comment_id, None
\* when the chain ends or leaves the table before.
RECURSIVE AncestorAt(_, _)
AncestorAt(id, k) ==
    IF k = 0 THEN id
    ELSE IF id = None \/ ~CommentExists(id) THEN None
    ELSE AncestorAt(CommentRow(id).parent_comment_id, k - 1)

\* C22: the parent relation of the comments is a forest: the parent of a
\* comment is a comment of the same post that was created strictly earlier,
\* and no comment is its own ancestor, whatever comments are added, edited
\* and deleted.
C22_CommentForest ==
    /\ \A c \in comments :
          c.parent_comment_id # None =>
             /\ CommentExists(c.parent_comment_id)
             /\ CommentRow(c.parent_comment_id).post_id = c.post_id
             /\ c.parent_comment_id < c.id
    /\ \A c \in comments, k \in 1..MaxThread : AncestorAt(c.id, k) # c.id

\* A reply to a reply exists.
C22_Witness ==
    \E c \in comments :
        /\ c.parent_comment_id # None
        /\ CommentRow(c.parent_comment_id).parent_comment_id # None

\* C28: every reply references a comment that exists and is on the same post;
\* deleting a comment removes that comment only, turns its replies into
\* top-level comments and leaves every other comment as it is.
C28_DeleteKeepsThreads ==
    /\ []ParentsConsistent
    /\ [][\A s \in Browser, id \in ThreadIds :
             (delete_comment(s, id) /\ CommentExists(id) /\ ~CommentExists(id)') =>
                /\ {c.id : c \in comments'} = {c.id : c \in comments} \ {id}
                /\ \A c \in comments' : \E old \in comments :
                      /\ old.id = c.id
                      /\ c = [old EXCEPT !.parent_comment_id = IF @ = id THEN None ELSE @]
         ]_vars

\* Comment 1 has been deleted; its reply, comment 2, is a top-level comment
\* next to a comment of another post.
C28_Witness ==
    /\ resp = Resp(200, <<>>)
    /\ ~CommentExists(1) /\ CommentExists(2) /\ CommentExists(3)
    /\ CommentRow(2).parent_comment_id = None
    /\ CommentRow(3).post_id # CommentRow(2).post_id

----------------------------------------------------------------------------
(* Serial specification of persona ownership: two accounts create, edit and *)
(* switch personas and act on one post.                                     *)

NextPersona ==
    \/ IdentityNext
    \/ \E s \in Browser, id \in 1..(MaxPersonas + 1), valid \in BOOLEAN, name \in PersonaNames :
          edit_persona_post(s, id, valid, name)
    \/ \E s \in Browser : nextPostId <= MaxPosts /\ create_post_post(s, <<"t", "t", "t">>, <<"x">>, 1)
    \/ \E s \in Browser, p \in PostIds : delete_post(s, p)
    \/ \E s \in Browser, p \in PostIds, data \in {d \in SpecVotes : d.n = 1} :
          RowBudget /\ vote(s, p, data)
    \/ \E s \in Browser, p \in PostIds : RowBudget /\ save(s, p, "true")
    \/ \E s \in Browser, p \in PostIds :
          RowBudget /\ add_comment_api(s, p, <<"x">>, [kind |-> "missing", n |-> 0])

SpecPersona == Init /\ [][NextPersona]_vars

\* C23: a persona keeps its owner: no step changes the user_id of an existing
\* persona or removes it, a created persona is owned by the account that created
\* it, and a persona edit by another account is refused and changes no persona.
C23_OwnerNeverChanges ==
    [][/\ \A i \in DOMAIN personas :
            i \in DOMAIN personas' /\ personas'[i].user_id = personas[i].user_id
       /\ \A i \in DOMAIN personas' \ DOMAIN personas :
            \E s \in Browser : ~Anonymous(s) /\ personas'[i].user_id = session[s].user_id
       /\ \A s \in Browser, id \in PersonaIds, valid \in BOOLEAN, name \in PersonaNames :
            (/\ edit_persona_post(s, id, valid, name)
             /\ id \in DOMAIN personas
             /\ personas[id].user_id # session[s].user_id)
                => resp'.status \in {401, 403} /\ personas' = personas]_vars

\* An edited persona of account 2, and account 1 refused when it edits it.
C23_Witness ==
    /\ resp = Resp(403, <<>>)
    /\ session[1].user_id = 1
    /\ \E i \in DOMAIN personas : personas[i] = [user_id |-> 2, name |-> "a"]
    /\ \A i \in DOMAIN personas : personas[i].user_id = 2

\* C25: persona_switch selects only a persona that exists and belongs to the
\* account, or none; a request naming a missing persona, a persona of another
\* account or a non-integer id is answered 403 or 400 and leaves the session's
\* selection as it was.
C25_SwitchGuarded ==
    [][\A s \in Browser, data \in PersonaData :
          (persona_switch(s, data) /\ ~Anonymous(s)) =>
              /\ (resp'.status = 200 /\ session'[s].active_persona_id # None) =>
                    /\ session'[s].active_persona_id \in DOMAIN personas
                    /\ personas[session'[s].active_persona_id].user_id = session[s].user_id
              /\ (\/ data.kind \in {"str", "float"}
                  \/ data.kind = "int" /\ data.n # 0 /\ data.n \notin DOMAIN personas
                  \/ data.kind = "int" /\ data.n \in DOMAIN personas
                        /\ personas[data.n].user_id # session[s].user_id)
                    => resp'.status \in {400, 403} /\ session' = session]_vars

----------------------------------------------------------------------------
(* Serial specification of identity scoping: one account and its personas   *)
(* vote on and save up to MaxThreadPosts posts.                             *)

\* The ledgers hold at most MaxScopeRows rows between them.
MaxScopeRows == 3
ScopeBudget == BagCardinality(votes) + BagCardinality(saved) <= MaxScopeRows

NextScope ==
    \/ \E s \in Browser : login_post(s, 1, TRUE, TRUE)
    \/ \E s \in Browser : Len(personas) < MaxPersonas /\ create_persona_quick(s)
    \/ \E s \in Browser, data \in {d \in PersonaData : d.kind = "int" /\ d.n <= MaxPersonas} :
          persona_switch(s, data)
    \/ \E s \in Browser : nextPostId <= MaxThreadPosts /\ create_post_post(s, <<"t", "t", "t">>, <<"x">>, 1)
    \/ \E s \in Browser, p \in ThreadPostIds, data \in SpecVotes :
          vote(s, p, data) /\ ScopeBudget'
    \/ \E s \in Browser, p \in ThreadPostIds, data \in {"true", "false"} :
          save(s, p, data) /\ ScopeBudget'

SpecScope == Init /\ [][NextScope]_vars

\* The rows of a ledger that are not those of one identity on one post.
VotesOfOthers(b, post_id, who) ==
    [r \in {x \in DOMAIN b : ~(x.post_id = post_id /\ Voter(x) = who)} |-> b[r]]
SavesOfOthers(b, post_id, who) ==
    [r \in {x \in DOMAIN b : ~(x.post_id = post_id /\ Saver(x) = who)} |-> b[r]]
OtherPosts(post_id) == {q \in posts : q.id # post_id}

\* C26: a vote or a save made as identity I on post P changes only the Vote or
\* SavedPost rows of (P, I) and, for a vote, the counters of P: the rows of the
\* other identities, the owning account and its other personas included, and
\* the rows and counters of the other posts stay as they were.
C26_ScopedToIdentity ==
    [][\A s \in Browser, p \in ThreadPostIds :
          /\ \A data \in SpecVotes :
                (vote(s, p, data) /\ ~Anonymous(s) /\ PostExists(p)) =>
                    /\ VotesOfOthers(votes, p, ActingIdentity(s))' = VotesOfOthers(votes, p, ActingIdentity(s))
                    /\ OtherPosts(p)' = OtherPosts(p)
                    /\ PostRow(p)' = [PostRow(p) EXCEPT !.upvotes = PostRow(p)'.upvotes,
                                                        !.downvotes = PostRow(p)'.downvotes]
                    /\ UNCHANGED <<saved, comments, personas>>
          /\ \A data \in {"true", "false"} :
                (save(s, p, data) /\ ~Anonymous(s) /\ PostExists(p)) =>
                    /\ SavesOfOthers(saved, p, ActingIdentity(s))' = SavesOfOthers(saved, p, ActingIdentity(s))
                    /\ UNCHANGED <<votes, posts, comments, personas>>]_vars

\* Persona 1 has just turned its vote on post 1 into a downvote while the
\* account keeps its upvote on that post and persona 2 its upvote on post 2.
C26_Witness ==
    /\ PostExists(1) /\ session[1].active_persona_id = 1
    /\ resp = Resp(200, VotePayload(PostRow(1), -1))
    /\ BagIn(NewVote(1, [active_persona |-> 1, user_id |-> 1], -1), votes)
    /\ BagIn(NewVote(1, [active_persona |-> None, user_id |-> 1], 1), votes)
    /\ BagIn(NewVote(2, [active_persona |-> 2, user_id |-> 1], 1), votes)
    /\ Counters(1, 1, 1)

----------------------------------------------------------------------------
(* Votes cast on a ledger that already holds several rows per identity: a   *)
(* table filled before the unique indexes existed.                          *)

MaxDup == 2
DupIdentities ==
    {[active_persona |-> None, user_id |-> 1], [active_persona |-> 1, user_id |-> 1]}
DupRows == {NewVote(1, i, v) : i \in DupIdentities, v \in {-1, 1}}

InitDup ==
    /\ session = [s \in Sessions |-> [user_id |-> None, active_persona_id |-> None]]
    /\ personas = <<NewPersona(1)>>
    /\ \E n \in [DupRows -> 0..MaxDup] :
          votes = [r \in {x \in DupRows : n[x] > 0} |-> n[r]]
    /\ \E up \in 0..MaxDup, down \in 0..MaxDup :
          posts = {[NewPost(1, 1, <<"t", "t", "t">>, <<"x">>, [active_persona |-> None, user_id |-> 1])
                      EXCEPT !.upvotes = up, !.downvotes = down]}
    /\ nextPostId = 2
    /\ comments = {}
    /\ nextCommentId = 1
    /\ saved = EmptyBag
    /\ resp = Resp(0, <<>>)
    /\ reqs = [s \in Sessions |-> IdleReq]
    /\ InitSite

SpecDup == InitDup /\ [][NextDrift]_vars

\* C27: whatever rows the ledger held, after a vote of value v by identity I on
\* post P is handled there is no row of (P, I) if v = 0 and exactly one row,
\* of value v, otherwise.
C27_VoteRestoresUniqueness ==
    [][\A s \in Browser, p \in PostIds, data \in SpecVotes :
          (vote(s, p, data) /\ resp'.status = 200) =>
              LET ident == get_identity(session[s])
                  mine == VotesBy(votes', p, ident)
              IN  IF ParseVote(data) = 0
                  THEN mine = {}
                  ELSE /\ mine = {NewVote(p, ident, ParseVote(data))}
                       /\ votes'[NewVote(p, ident, ParseVote(data))] = 1]_vars

\* The account has voted -1 and holds that one row, while its persona still
\* holds the two upvote and two downvote rows the ledger started with.
C27_Witness ==
    /\ PostExists(1) /\ resp = Resp(200, VotePayload(PostRow(1), -1))
    /\ session[1] = [user_id |-> 1, active_persona_id |-> None]
    /\ votes = (NewVote(1, [active_persona |-> None, user_id |-> 1], -1) :> 1)
               @@ (NewVote(1, [active_persona |-> 1, user_id |-> 1], 1) :> MaxDup)
               @@ (NewVote(1, [active_persona |-> 1, user_id |-> 1], -1) :> MaxDup)

----------------------------------------------------------------------------
(* Communities: routes/community.py create_community_post and the default  *)
(* community of routes/feed.py, statement by statement, on a database       *)
(* created without init-db.                                                 *)

General == <<"g", "e", "n", "e", "r", "a", "l">>
MinCommunityNameLen == 2
MaxCommunityNameLen == 64

\* str.lower() over the letters of the submitted names.
lower(str) == [i \in DOMAIN str |-> IF str[i] = "G" THEN "g" ELSE str[i]]

\* The submitted names: the default community's name as it is, capitalised and
\* padded, another name, one too short once stripped, one with a character
\* outside [a-z0-9_].
CommunityNames ==
    {General, <<"G", "e", "n", "e", "r", "a", "l">>, <<" ", "g", "e", "n", "e", "r", "a", "l">>,
     <<"g", "g">>, <<"g", " ">>, <<"g", "!">>}

\* Lines 154-172: the length tests and re.match(r'^[a-z0-9_]+$', community_name).
CommunityNameValid(community_name) ==
    /\ Len(community_name) >= MinCommunityNameLen
    /\ Len(community_name) <= MaxCommunityNameLen
    /\ \A i \in DOMAIN community_name : community_name[i] \in {"g", "e", "n", "r", "a", "l"}

AlreadyExists == Resp(400, [error |-> "already exists"])
FeedPage(names) == Resp(200, [communities |-> names])

\* Lines 136-187: form validation, the name tests and the existence check.
create_community_begin(r, name) ==
    LET community_name == lower(strip(name)) IN
    /\ reqs[r].pc = "idle"
    /\ UNCHANGED <<session, db, resp, site>>
    /\ IF Anonymous(r)
       THEN reqs' = [reqs EXCEPT ![r].pc = "rejected", ![r].resp = Resp(401, <<>>)]
       ELSE IF Len(name) < MinCommunityNameLen \/ ~CommunityNameValid(community_name)
       THEN reqs' = [reqs EXCEPT ![r].pc = "rejected", ![r].resp = Resp(400, <<>>)]
       ELSE IF BagIn(community_name, communities)
       THEN reqs' = [reqs EXCEPT ![r].pc = "rejected", ![r].resp = AlreadyExists]
       ELSE reqs' = [reqs EXCEPT ![r] = [IdleReq EXCEPT !.pc = "create_insert",
                                                         !.name = community_name]]

\* Lines 208-228: db.session.add, commit, and the IntegrityError handler. The
\* unique constraint on communities.name fails the commit of a taken name.
create_community_commit(r) ==
    /\ reqs[r].pc = "create_insert"
    /\ UNCHANGED <<session, db, resp, users, registration, now, redirect_guard>>
    /\ IF BagIn(reqs[r].name, communities)
       THEN /\ communities' = communities
            /\ reqs' = [reqs EXCEPT ![r].pc = "rolled_back", ![r].resp = AlreadyExists]
       ELSE /\ communities' = BagInsert(communities, reqs[r].name)
            /\ reqs' = [reqs EXCEPT ![r].pc = "done", ![r].resp = Resp(302, <<>>)]

\* routes/feed.py lines 77-86: the communities are loaded; an empty list sends
\* the request to the creation of the default community.
feed_begin(r) ==
    /\ reqs[r].pc = "idle"
    /\ UNCHANGED <<session, db, resp, site>>
    /\ IF communities = EmptyBag
       THEN reqs' = [reqs EXCEPT ![r] = [IdleReq EXCEPT !.pc = "feed_insert"]]
       ELSE reqs' = [reqs EXCEPT ![r].pc = "done", ![r].resp = FeedPage(BagToSet(communities))]

\* routes/feed.py lines 87-99: the insert of 'general'. A failed commit is
\* caught by `except Exception`, which sets communities = [] and calls no
\* rollback: the page is rendered on a session whose flush has failed.
feed_commit(r) ==
    /\ reqs[r].pc = "feed_insert"
    /\ UNCHANGED <<session, db, resp, users, registration, now, redirect_guard>>
    /\ IF BagIn(General, communities)
       THEN /\ communities' = communities
            /\ reqs' = [reqs EXCEPT ![r].pc = "failed_flush", ![r].resp = FeedPage({})]
       ELSE /\ communities' = BagInsert(communities, General)
            /\ reqs' = [reqs EXCEPT ![r].pc = "done", ![r].resp = FeedPage({General})]

\* The browser reads the answer; its next request can start.
request_end(r) ==
    /\ reqs[r].pc \in {"rejected", "rolled_back", "failed_flush", "done", "error"}
    /\ reqs' = [reqs EXCEPT ![r] = IdleReq]
    /\ UNCHANGED <<session, db, resp, site>>

InitCommunity ==
    /\ session = [s \in Sessions |-> [user_id |-> s, active_persona_id |-> None]]
    /\ personas = <<>>
    /\ posts = {}
    /\ nextPostId = 1
    /\ comments = {}
    /\ nextCommentId = 1
    /\ votes = EmptyBag
    /\ saved = EmptyBag
    /\ resp = Resp(0, <<>>)
    /\ reqs = [s \in Sessions |-> IdleReq]
    /\ communities = EmptyBag
    /\ users = <<"u1", "u2">>
    /\ registration = [s \in Sessions |-> NoRegistration]
    /\ now = 0
    /\ redirect_guard = FALSE

NextCommunity ==
    \/ \E r \in Sessions, name \in CommunityNames : create_community_begin(r, name)
    \/ \E r \in Sessions : create_community_commit(r)
    \/ \E r \in Sessions : feed_begin(r)
    \/ \E r \in Sessions : feed_commit(r)
    \/ \E r \in Sessions : request_end(r)

SpecCommunity == InitCommunity /\ [][NextCommunity]_vars

\* The name a request is about to insert.
InsertedName(r) == IF reqs[r].pc = "feed_insert" THEN General ELSE reqs[r].name

\* A request commits its insert after another request has taken the name.
LosesRace(r) ==
    /\ reqs[r].pc \in {"create_insert", "feed_insert"}
    /\ reqs'[r].pc # reqs[r].pc
    /\ BagIn(InsertedName(r), communities)

NamesUnique == \A n \in DOMAIN communities : communities[n] = 1

\* C24: no two communities carry the same name, whatever the interleaving of
\* community creations and of feed requests creating the default community,
\* and a request whose insert comes after another request took the name is
\* rolled back and answered with the 'already exists' error.
C24_NamesUnique ==
    /\ []NamesUnique
    /\ [][\A r \in Sessions :
            LosesRace(r) => /\ communities' = communities
                            /\ reqs'[r].pc = "rolled_back"
                            /\ reqs'[r].resp = AlreadyExists]_vars

----------------------------------------------------------------------------
(* Registration by one-time code: routes/auth.py register_post, resend_otp  *)
(* and verify_otp, one request at a time, with a clock.                     *)

OtpLifetime == 600
TickSeconds == 300
MaxClock == 1200
MaxCodes == 2
Codes == 1..MaxCodes
\* The submitted usernames: a free one and one that is taken.
RegNames == {"new", "u1"}
UsernameTaken(username) == \E i \in DOMAIN users : users[i] = username

\* The passing of time between two requests.
tick ==
    /\ now < MaxClock
    /\ now' = now + TickSeconds
    /\ UNCHANGED <<session, db, resp, reqs, communities, users, registration, redirect_guard>>

\* POST /auth/register; `valid` is the outcome of RegisterForm validation and
\* `otp` the six digits drawn by secrets.choice.
register_post(s, valid, username, otp) ==
    /\ UNCHANGED <<session, db, reqs, communities, users, now, redirect_guard>>
    /\ IF ~valid \/ UsernameTaken(username)
       THEN resp' = Resp(400, <<>>) /\ UNCHANGED registration
       ELSE /\ registration' = [registration EXCEPT ![s] =
                                   [otp |-> otp, data |-> <<username>>, time |-> now]]
            /\ resp' = Resp(200, [require_otp |-> TRUE])

\* POST /auth/resend-otp
resend_otp(s, otp) ==
    /\ UNCHANGED <<session, db, reqs, communities, users, now, redirect_guard>>
    /\ IF registration[s].data = <<>>
       THEN resp' = Resp(400, <<>>) /\ UNCHANGED registration
       ELSE /\ registration' = [registration EXCEPT ![s].otp = otp, ![s].time = now]
            /\ resp' = Resp(200, [success |-> TRUE])

\* Mutation: the age of the code is not tested.
verify_otp_NoExpiry(s, entered_otp) ==
    LET stored == registration[s] IN
    /\ UNCHANGED <<db, reqs, communities, now, redirect_guard>>
    /\ IF entered_otp = None \/ stored.otp = None \/ stored.data = <<>>
       THEN resp' = Resp(400, <<>>) /\ UNCHANGED <<session, users, registration>>
       ELSE IF entered_otp # stored.otp
       THEN resp' = Resp(400, <<>>) /\ UNCHANGED <<session, users, registration>>
       ELSE IF UsernameTaken(stored.data[1])
       THEN resp' = Resp(500, <<>>) /\ UNCHANGED <<session, users, registration>>
       ELSE /\ users' = Append(users, stored.data[1])
            /\ session' = [session EXCEPT ![s] = [user_id |-> Len(users) + 1,
                                                   active_persona_id |-> None]]
            /\ registration' = [registration EXCEPT ![s] = NoRegistration]
            /\ resp' = Resp(200, [success |-> TRUE])

\* POST /auth/verify-otp; entered_otp = None stands for a body without 'otp'.
\* The insert of a username taken since the registration fails on the unique
\* constraint and is rolled back.
verify_otp(s, entered_otp) ==
    LET stored == registration[s] IN
    /\ UNCHANGED <<db, reqs, communities, now, redirect_guard>>
    /\ IF entered_otp = None \/ stored.otp = None \/ stored.data = <<>>
       THEN resp' = Resp(400, <<>>) /\ UNCHANGED <<session, users, registration>>
       ELSE IF now - stored.time > OtpLifetime
       THEN /\ registration' = [registration EXCEPT ![s].otp = None, ![s].data = <<>>]
            /\ resp' = Resp(400, <<>>)
            /\ UNCHANGED <<session, users>>
       ELSE IF entered_otp # stored.otp
       THEN resp' = Resp(400, <<>>) /\ UNCHANGED <<session, users, registration>>
       ELSE IF UsernameTaken(stored.data[1])
       THEN resp' = Resp(500, <<>>) /\ UNCHANGED <<session, users, registration>>
       ELSE /\ users' = Append(users, stored.data[1])
            /\ session' = [session EXCEPT ![s] = [user_id |-> Len(users) + 1,
                                                   active_persona_id |-> None]]
            /\ registration' = [registration EXCEPT ![s] = NoRegistration]
            /\ resp' = Resp(200, [success |-> TRUE])

NextOtp ==
    \/ tick
    \/ \E s \in Sessions, valid \in BOOLEAN, username \in RegNames, otp \in Codes :
          register_post(s, valid, username, otp)
    \/ \E s \in Sessions, otp \in Codes : resend_otp(s, otp)
    \/ \E s \in Sessions, entered_otp \in Codes \cup {None} : verify_otp(s, entered_otp)

SpecOtp == Init /\ [][NextOtp]_vars

\* The code of a registration under way is older than its lifetime.
Expired(s) ==
    /\ registration[s].otp # None /\ registration[s].data # <<>>
    /\ now - registration[s].time > OtpLifetime

\* C29: verify_otp creates an account only when the entered code is the code
\* issued last (by register_post or resend_otp) and at most 600 seconds have
\* passed since it was issued; a wrong, superseded, expired or already used code
\* creates no account, and an attempt on an expired code removes the pending
\* registration from the session.
C29_OtpGuardsAccount ==
    [][/\ \A s \in Sessions, otp \in Codes :
            ((\E valid \in BOOLEAN, username \in RegNames : register_post(s, valid, username, otp))
                \/ resend_otp(s, otp))
              => /\ users' = users
                 /\ resp'.status = 200 => /\ registration'[s].otp = otp
                                          /\ registration'[s].time = now
       /\ \A s \in Sessions, entered_otp \in Codes \cup {None} :
            verify_otp(s, entered_otp) =>
              /\ users' # users =>
                    /\ entered_otp # None /\ entered_otp = registration[s].otp
                    /\ now - registration[s].time <= OtpLifetime
                    /\ users' = Append(users, registration[s].data[1])
                    /\ registration'[s] = NoRegistration
              /\ (entered_otp # None /\ Expired(s)) =>
                    /\ users' = users
                    /\ registration'[s].otp = None /\ registration'[s].data = <<>>
                    /\ resp'.status = 400]_vars

\* An account created in session 1 with a code entered exactly 600 seconds
\* after the first code was issued: the session is logged in as the new
\* account and its registration keys are gone.
C29_Witness ==
    /\ Len(users) = 3 /\ users[3] = "new"
    /\ session[1].user_id = 3 /\ registration[1] = NoRegistration
    /\ resp = Resp(200, [success |-> TRUE])
    /\ now = OtpLifetime

----------------------------------------------------------------------------
(* GET /auth/login: routes/auth.py login, run by the threads of one process *)
(* that share the attribute _redirect_guard of the view function.           *)

Redirect(location) == Resp(302, [location |-> location])

\* Line 268: hasattr(login, "_redirect_guard"), and the redirect of line 270.
login_hasattr(r) ==
    /\ reqs[r].pc = "idle"
    /\ UNCHANGED <<session, db, resp, site>>
    /\ IF redirect_guard
       THEN reqs' = [reqs EXCEPT ![r].pc = "done", ![r].resp = Redirect("/feed")]
       ELSE reqs' = [reqs EXCEPT ![r] = [IdleReq EXCEPT !.pc = "login_setattr"]]

\* Lines 271-273: setattr(login, "_redirect_guard", True) and the redirect
\* built inside try.
login_setattr(r) ==
    /\ reqs[r].pc = "login_setattr"
    /\ redirect_guard' = TRUE
    /\ reqs' = [reqs EXCEPT ![r].pc = "login_delattr"]
    /\ UNCHANGED <<session, db, resp, communities, users, registration, now>>

\* Lines 274-276: delattr(login, "_redirect_guard") in finally. It raises
\* AttributeError when the attribute is gone; the exception replaces the
\* return value and the request ends as an internal server error.
login_delattr(r) ==
    /\ reqs[r].pc = "login_delattr"
    /\ UNCHANGED <<session, db, resp, communities, users, registration, now>>
    /\ IF redirect_guard
       THEN /\ redirect_guard' = FALSE
            /\ reqs' = [reqs EXCEPT ![r].pc = "done", ![r].resp = Redirect("/feed?auth=login")]
       ELSE /\ redirect_guard' = redirect_guard
            /\ reqs' = [reqs EXCEPT ![r].pc = "error", ![r].resp = Resp(500, <<>>)]

NextLogin ==
    \/ \E r \in Sessions : login_hasattr(r)
    \/ \E r \in Sessions : login_setattr(r)
    \/ \E r \in Sessions : login_delattr(r)
    \/ \E r \in Sessions : request_end(r)
    \/ \E s \in Sessions, u \in Users, ok \in BOOLEAN : login_post(s, u, ok, TRUE)
    \/ \E s \in Sessions : logout(s)

SpecLogin == Init /\ [][NextLogin]_vars

\* No request for the login page is between its hasattr and its delattr.
LoginQuiet == \A r \in Sessions : reqs[r].pc \in {"idle", "done", "error"}

\* C30: whatever the interleaving of the requests for the login page, each of
\* them ends with a redirect, none with an exception of setattr or delattr,
\* and once they have ended the view carries no _redirect_guard attribute.
C30_LoginRedirects ==
    /\ \A r \in Sessions :
          reqs[r].pc \in {"done", "error"} => reqs[r].resp.status = 302
    /\ LoginQuiet => ~redirect_guard

====
